---- MODULE Spec2Model ----
(***************************************************************************)
(* Model of the Shopify "orders/paid" webhook receiver of                  *)
(* src/api/orders-paid.js: the upstream gateway systemeFetch, the contact  *)
(* upsert protocol built on it, and the handler.                           *)
(*                                                                         *)
(* SpecFetch steps one systemeFetch call attempt by attempt, with any      *)
(* answer to each request.  Spec is one delivery of any event to the       *)
(* handler, SpecDup two deliveries of one valid event, both against a      *)
(* modelled upstream; there each systemeFetch call is one step.            *)
(***************************************************************************)
EXTENDS Integers, Sequences, FiniteSets, TLC

VARIABLES fPath, fTol, fBase, fAttempts, fIdx, fLast, fLast404, fLog, fSeen, fPrev, fOkAt, fRes

fvars == <<fPath, fTol, fBase, fAttempts, fIdx, fLast, fLast404, fLog, fSeen, fPrev, fOkAt, fRes>>

Range(s) == {s[i] : i \in 1..Len(s)}

\* Sole(S) is the element of the one-element set S.  A value that is used
\* several times is bound as x \in {e}, which computes it once.
Sole(S) == CHOOSE x \in S : TRUE

(***************************************************************************)
(* Paths.  A path string is kept as its "/"-separated segments plus a flag *)
(* telling whether it starts with "/"; the query string stays in the last  *)
(* segment.  Path(TRUE, Lits(<<"api", "contacts">>)) is "/api/contacts".   *)
(***************************************************************************)
Path(lead, segs) == [lead |-> lead, segs |-> segs]

\* A literal segment, and a segment that carries an e-mail / form id (q) or
\* a contact id (n)
Lit(name) == [name |-> name, q |-> <<>>, n |-> 0]
QSeg(name, q) == [name |-> name, q |-> q, n |-> 0]
NSeg(name, n) == [name |-> name, q |-> <<>>, n |-> n]
Lits(names) == [i \in 1..Len(names) |-> Lit(names[i])]

\* path.startsWith("/" + prefix joined by "/" + "/")
StartsWith(path, prefix) ==
    /\ path.lead
    /\ Len(path.segs) > Len(prefix)
    /\ SubSeq(path.segs, 1, Len(prefix)) = prefix

\* path.replace(/^\/prefix\//, "/" + new + "/"), for a path that starts with it
ReplacePrefix(path, prefix, new) ==
    Path(TRUE, new \o SubSeq(path.segs, Len(prefix) + 1, Len(path.segs)))

\* Set.add on an insertion-ordered Set
SetAdd(seq, p) == IF p \in Range(seq) THEN seq ELSE Append(seq, p)

\* "/api" + (path.startsWith("/") ? "" : "/") + path, and likewise "/api/public"
Prepend(prefix, path) == Path(TRUE, prefix \o path.segs)

\* /^\/(api|public)\//.test(path)
HasKnownPrefix(path) == StartsWith(path, Lits(<<"api">>)) \/ StartsWith(path, Lits(<<"public">>))

pathVariants(path) ==
    LET v0 == <<path>>
        v1 == IF StartsWith(path, Lits(<<"api", "public">>))
              THEN SetAdd(SetAdd(v0, ReplacePrefix(path, Lits(<<"api", "public">>), Lits(<<"api">>))),
                          ReplacePrefix(path, Lits(<<"api", "public">>), Lits(<<"public">>)))
              ELSE v0
        v2 == IF StartsWith(path, Lits(<<"api">>))
              THEN SetAdd(SetAdd(v1, ReplacePrefix(path, Lits(<<"api">>), Lits(<<"api", "public">>))),
                          ReplacePrefix(path, Lits(<<"api">>), <<>>))
              ELSE v1
        v3 == IF StartsWith(path, Lits(<<"public">>))
              THEN SetAdd(v2, ReplacePrefix(path, Lits(<<"public">>), Lits(<<"api", "public">>)))
              ELSE v2
        v4 == IF ~HasKnownPrefix(path)
              THEN SetAdd(SetAdd(v3, Prepend(Lits(<<"api">>), path)),
                          Prepend(Lits(<<"api", "public">>), path))
              ELSE v3
    IN  v4

defaultBase == "https://api.systeme.io"
fallbackBase == "https://systeme.io"

\* bases = [baseFromEnv || defaultBase, "https://systeme.io"]; "" is an unset
\* (or blank) SYSTEME_API_BASE
bases(baseFromEnv) ==
    << IF baseFromEnv = "" THEN defaultBase ELSE baseFromEnv, fallbackBase >>

\* One entry of attempts: the URL (base + path), the header set, and the
\* position of its base in bases
Attempt(slot, base, p, auth) == [slot |-> slot, base |-> base, path |-> p, auth |-> auth]

\* The inner loop over pathVariants: two attempts per variant, withKey first
RECURSIVE VariantAttempts(_, _, _)
VariantAttempts(slot, base, vs) ==
    IF vs = <<>> THEN <<>>
    ELSE << Attempt(slot, base, Head(vs), "withKey"),
            Attempt(slot, base, Head(vs), "noKey") >>
         \o VariantAttempts(slot, base, Tail(vs))

\* attempts with the two bases taken in the opposite order
attemptsFallbackFirst(path, baseFromEnv) ==
    LET bs == bases(baseFromEnv)
        vs == pathVariants(path)
    IN  VariantAttempts(2, bs[2], vs) \o VariantAttempts(1, bs[1], vs)

\* The outer loop over bases
attempts(path, baseFromEnv) ==
    Sole({ VariantAttempts(1, bs[1], vs) \o VariantAttempts(2, bs[2], vs) :
           bs \in {bases(baseFromEnv)}, vs \in {pathVariants(path)} })

(***************************************************************************)
(* Responses.  A response is a status and a body text; a fetch that throws *)
(* (network error) is the response with neterr set.                        *)
(***************************************************************************)
\* A JSON id field: absent (undefined) or a number
NoId == [has |-> FALSE, n |-> 0]
Id(n) == [has |-> TRUE, n |-> n]

\* JSON values: {} ("empty"), {raw: text} ("raw"), an error object, an
\* object with an id ("obj"), and the three list shapes the code reads:
\* {items: [...]} ("items"), [...] ("array"), {data: [...]} ("data")
Json(kind, items, id) == [kind |-> kind, items |-> items, id |-> id]
EmptyJson == Json("empty", <<>>, NoId)
RawJson == Json("raw", <<>>, NoId)
ErrJson == Json("error", <<>>, NoId)

\* Body texts: "", text that is not JSON, and the JSON text of a value
Blank == [kind |-> "blank", val |-> EmptyJson]
Garbage == [kind |-> "garbage", val |-> EmptyJson]
JsonText(v) == [kind |-> "json", val |-> v]

\* A response with a status, and a fetch that throws
Http(status, text) == [neterr |-> FALSE, status |-> status, text |-> text]
NetErr == [neterr |-> TRUE, status |-> 0, text |-> Blank]

\* json = text ? JSON.parse(text) : {}, and {raw: text} when parsing throws
ParseText(text) ==
    IF text.kind = "blank" THEN EmptyJson
    ELSE IF text.kind = "garbage" THEN RawJson
    ELSE text.val

\* res.ok
IsOk(status) == status >= 200 /\ status <= 299

Null == [nil |-> TRUE, ok |-> FALSE, status |-> 0, json |-> EmptyJson]
Result(ok, status, json) == [nil |-> FALSE, ok |-> ok, status |-> status, json |-> json]

\* Outcome of a call: a returned result or a thrown Error carrying fin.status
Pending == [kind |-> "pending", res |-> Null]
Return(r) == [kind |-> "return", res |-> r]
Throw(status) == [kind |-> "throw", res |-> Result(FALSE, status, EmptyJson)]

\* Exhausted404 without the test of tolerate404
Exhausted404IgnoresFlag(tol, last, last404) == ~last404.nil

\* tolerate404 && last404 (line 119)
Exhausted404(tol, last, last404) == tol /\ ~last404.nil

\* Lines 119-122: what the call does once the loop has run out of attempts
Exhausted(tol, last, last404) ==
    IF Exhausted404(tol, last, last404) THEN Return(last404)
    ELSE LET fin == IF ~last.nil THEN last ELSE last404
         IN  Throw(fin.status)

\* OnOk without the return
OnOkContinues(resp) == Pending

\* if (res.ok) return {ok: true, status, json} (lines 100-105)
OnOk(resp) == Return(Result(TRUE, resp.status, ParseText(resp.text)))

\* LoopBody where a 4xx other than 404 and 429 ends the call at once
LoopBodyStopsOnReject(last, last404, resp) ==
    IF resp.neterr
    THEN [last |-> Result(FALSE, 0, ErrJson), last404 |-> last404, out |-> Pending]
    ELSE IF IsOk(resp.status)
    THEN [last |-> last, last404 |-> last404, out |-> OnOk(resp)]
    ELSE IF resp.status = 404
    THEN [last |-> last, last404 |-> Result(FALSE, 404, ParseText(resp.text)),
          out |-> Pending]
    ELSE [last |-> Result(FALSE, resp.status, ParseText(resp.text)),
          last404 |-> last404,
          out |-> IF resp.status \in 400..499 /\ resp.status # 429
                  THEN Throw(resp.status) ELSE Pending]

\* The body of the loop for one attempt answered by resp: the new last,
\* last404 and, on a 2xx, the returned result
LoopBody(last, last404, resp) ==
    IF resp.neterr
    THEN [last |-> Result(FALSE, 0, ErrJson), last404 |-> last404, out |-> Pending]
    ELSE IF IsOk(resp.status)
    THEN [last |-> last, last404 |-> last404, out |-> OnOk(resp)]
    ELSE IF resp.status = 404
    THEN [last |-> last, last404 |-> Result(FALSE, 404, ParseText(resp.text)),
          out |-> Pending]
    ELSE [last |-> Result(FALSE, resp.status, ParseText(resp.text)),
          last404 |-> last404, out |-> Pending]

\* Index of the attempt tried after attempt i
NextAttempt(i) == i + 1

(***************************************************************************)
(* The whole loop of systemeFetch over the answers resps[i] the attempts   *)
(* receive: the outcome, and the number of requests issued.                *)
(***************************************************************************)
RECURSIVE RunLoop(_, _, _, _, _)
RunLoop(resps, i, last, last404, tol) ==
    IF i > Len(resps)
    THEN [out |-> Exhausted(tol, last, last404), n |-> Len(resps)]
    ELSE Sole({ Sole({ IF b.out.kind # "pending"
                       THEN [out |-> b.out, n |-> i]
                       ELSE RunLoop(resps, NextAttempt(i), b.last, b.last404, tol) :
                       b \in {LoopBody(last, last404, resp)} }) :
                resp \in {resps[i]} })

(***************************************************************************)
(* Strings whose characters matter (e-mails, SKUs, tag-map values) are     *)
(* sequences of one-character strings.                                     *)
(***************************************************************************)
Digits == {"0", "1", "2", "3", "4", "5", "6", "7", "8", "9"}

DigitVal(c) ==
    CASE c = "0" -> 0 [] c = "1" -> 1 [] c = "2" -> 2 [] c = "3" -> 3 [] c = "4" -> 4
      [] c = "5" -> 5 [] c = "6" -> 6 [] c = "7" -> 7 [] c = "8" -> 8 [] c = "9" -> 9

RECURSIVE TrimStart(_)
TrimStart(str) ==
    IF str # <<>> /\ Head(str) = " " THEN TrimStart(Tail(str)) ELSE str

RECURSIVE TrimEnd(_)
TrimEnd(str) ==
    IF str # <<>> /\ str[Len(str)] = " "
    THEN TrimEnd(SubSeq(str, 1, Len(str) - 1))
    ELSE str

\* String.prototype.trim
Trim(str) == TrimEnd(TrimStart(str))

\* /^\d+$/.test(s)
IsDigits(str) == str # <<>> /\ \A i \in 1..Len(str) : str[i] \in Digits

\* Number(s) of a string of digits
RECURSIVE NumberOfDigits(_)
NumberOfDigits(str) ==
    IF str = <<>> THEN 0
    ELSE 10 * NumberOfDigits(SubSeq(str, 1, Len(str) - 1)) + DigitVal(str[Len(str)])

LowerChar(c) ==
    CASE c = "A" -> "a" [] c = "B" -> "b" [] c = "X" -> "x" [] OTHER -> c

\* String.prototype.toLowerCase
toLowerCase(str) == [i \in 1..Len(str) |-> LowerChar(str[i])]

\* a || b on strings
OrElse(a, b) == IF a # <<>> THEN a ELSE b

\* JS numbers that may be NaN
Num(n) == [nan |-> FALSE, n |-> n]
NaN == [nan |-> TRUE, n |-> 0]
Truthy(x) == ~x.nan /\ x.n # 0

\* Number(json?.id)
NumberOfId(idf) == IF idf.has THEN Num(idf.n) ELSE NaN

(***************************************************************************)
(* SKU -> tag id.                                                          *)
(***************************************************************************)
\* COURSE_TAG_MAP_JSON = {"X1": "7", "S2": " 12 ", "N1": "vip", "Z0": "0"}
TagMap ==
    (<<"X", "1">> :> <<"7">>) @@ (<<"S", "2">> :> <<" ", "1", "2", " ">>)
    @@ (<<"N", "1">> :> <<"v", "i", "p">>) @@ (<<"Z", "0">> :> <<"0">>)

Ok(v) == [threw |-> FALSE, msg |-> "", val |-> v]
Threw(msg) == [threw |-> TRUE, msg |-> msg, val |-> 0]

\* getTagIdFromMap with if (!Number(s)) throw in place of the test of the
\* digits
getTagIdFromMapTruthy(sku) ==
    IF sku \notin DOMAIN TagMap THEN Threw("sku-not-mapped")
    ELSE LET str == Trim(TagMap[sku])
         IN  IF ~IsDigits(str) \/ NumberOfDigits(str) = 0 THEN Threw("tag-not-numeric")
             ELSE Ok(NumberOfDigits(str))

getTagIdFromMap(sku) ==
    IF sku \notin DOMAIN TagMap THEN Threw("sku-not-mapped")
    ELSE Sole({ IF ~IsDigits(str) THEN Threw("tag-not-numeric")
                ELSE Ok(NumberOfDigits(str)) :
                str \in {Trim(TagMap[sku])} })

(***************************************************************************)
(* The request and the synchronous part of handler (lines 261-296).        *)
(***************************************************************************)
\* base64 length of a SHA-256 digest
DigestLen == 44

NoHeader == [key |-> "", of |-> "", len |-> 0]

\* crypto.createHmac("sha256", secret).update(raw).digest("base64"):
\* injective in (secret, raw)
Digest(secret, raw) == [key |-> secret, of |-> raw, len |-> DigestLen]

\* crypto.timingSafeEqual(A, B): throws when the lengths differ
cryptoTimingSafeEqual(a, b) ==
    IF a.len # b.len THEN "throws" ELSE IF a = b THEN "true" ELSE "false"

\* timingSafeEqual without its length test (line 29)
timingSafeEqualUnguarded(a, b) == cryptoTimingSafeEqual(a, b)

\* timingSafeEqual(a, b) (lines 26-31): "true", "false" or "throws"
timingSafeEqual(a, b) ==
    IF a.len # b.len THEN "false" ELSE cryptoTimingSafeEqual(a, b)

\* shop === env("SHOPIFY_SHOP_DOMAIN") after both are lower-cased
LowerHost(host) == IF host = "Shop.MyShopify.com" THEN "shop.myshopify.com" ELSE host
ShopEqualIgnoringCase(shop, domain) == LowerHost(shop) = LowerHost(domain)

\* shop !== env("SHOPIFY_SHOP_DOMAIN") (line 271), negated
ShopEqual(shop, domain) == shop = domain

\* env(name): throws when the variable is unset or blank
envMissing(v) == v = ""

\* safeJsonParse(raw) of the raw bodies of the model.  json is "invalid"
\* when JSON.parse throws, "falsy" for null, false, 0 and "", "scalar" for
\* any other non-object value
Order(email, custEmail, items) ==
    [json |-> "object", email |-> email, custEmail |-> custEmail, isArray |-> TRUE,
     items |-> items]
NonOrder(json) ==
    [json |-> json, email |-> <<>>, custEmail |-> <<>>, isArray |-> FALSE, items |-> <<>>]

EmailA == <<"a", "@", "b">>
EmailUpper == <<"A", "@", "B">>
EmailOther == <<"x", "@", "b">>
Blanks == <<" ">>
X1 == <<"X", "1">>
Z9 == <<"Z", "9">>

Bodies ==
    ("garbage" :> NonOrder("invalid"))
    @@ ("null" :> NonOrder("falsy"))
    @@ ("5" :> NonOrder("scalar"))
    @@ ("{}" :> [Order(<<>>, <<>>, <<>>) EXCEPT !.isArray = FALSE])
    @@ ("no-email" :> Order(<<>>, <<>>, <<X1>>))
    @@ ("blank-email" :> Order(Blanks, EmailA, <<X1>>))
    @@ ("no-items" :> Order(EmailA, <<>>, <<>>))
    @@ ("blank-skus" :> Order(EmailA, <<>>, << <<>>, Blanks >>))
    @@ ("X1" :> Order(EmailA, <<>>, <<X1>>))
    @@ ("customer-X1" :> Order(<<>>, EmailUpper, << <<>>, <<" ", "X", "1", " ">> >>))
    @@ ("S2-Z9" :> Order(<<" ", "a", "@", "b">>, EmailOther, << <<"S", "2">>, Z9 >>))
    @@ ("Z9-X1" :> Order(EmailA, <<>>, <<Z9, X1>>))
    @@ ("N1-X1" :> Order(EmailA, <<>>, << <<"N", "1">>, X1 >>))
    @@ ("Z0" :> Order(EmailA, <<>>, << <<"Z", "0">> >>))

safeJsonParse(raw) == Bodies[raw]

\* FirstSku without the trim
RECURSIVE FirstSkuUntrimmed(_)
FirstSkuUntrimmed(items) ==
    IF items = <<>> THEN <<>>
    ELSE IF Head(items) # <<>> THEN Head(items)
    ELSE FirstSkuUntrimmed(Tail(items))

\* The first line item whose trimmed SKU is not empty (lines 286-291);
\* <<>> stands for null
RECURSIVE FirstSku(_)
FirstSku(items) ==
    IF items = <<>> THEN <<>>
    ELSE IF Trim(Head(items)) # <<>> THEN Trim(Head(items))
    ELSE FirstSku(Tail(items))

matchedSku(payload) == FirstSku(IF payload.isArray THEN payload.items ELSE <<>>)

\* Response bodies: {error: e}, {ok: true, ignored: true}, {ok: true,
\* reason: r}, {ok: true} and {ok: true, error: e}
Body(ok, note, error) == [ok |-> ok, note |-> note, error |-> error]
Respond(status, body) ==
    [kind |-> "respond", status |-> status, body |-> body, email |-> <<>>, tagId |-> 0]
Proceed(email, tagId) ==
    [kind |-> "proceed", status |-> 0, body |-> Body(TRUE, "", ""), email |-> email,
     tagId |-> tagId]

\* A catch block that answers 500
CaughtAs500(msg) == Respond(500, Body(FALSE, "", msg))

\* The catch block of handler (lines 307-311)
Caught(msg) == Respond(200, Body(TRUE, "", msg))

\* !payload after safeJsonParse (line 278)
BadPayload(payload) == payload.json \in {"invalid", "falsy"}

handlerSync(req, cfg) ==
    IF req.method # "POST" THEN Respond(405, Body(FALSE, "", "Method Not Allowed"))
    ELSE IF req.readErr THEN Caught("read-error")
    ELSE IF req.hmac.len = 0 \/ req.topic = "" \/ req.shop = ""
    THEN Respond(400, Body(FALSE, "", "Bad Request"))
    ELSE IF envMissing(cfg.domain) THEN Caught("env-missing")
    ELSE IF ~ShopEqual(req.shop, cfg.domain)
    THEN Respond(401, Body(FALSE, "", "Unauthorized"))
    ELSE IF envMissing(cfg.secret) THEN Caught("env-missing")
    ELSE IF timingSafeEqual(Digest(cfg.secret, req.raw), req.hmac) = "throws"
    THEN Caught("length-mismatch")
    ELSE IF timingSafeEqual(Digest(cfg.secret, req.raw), req.hmac) = "false"
    THEN Respond(401, Body(FALSE, "", "Unauthorized"))
    ELSE IF req.topic # "orders/paid" THEN Respond(200, Body(TRUE, "ignored", ""))
    ELSE Sole({ Sole({ Sole({
             IF BadPayload(payload) THEN Respond(400, Body(FALSE, "", "Bad Request"))
             ELSE IF email = <<>> THEN Respond(200, Body(TRUE, "order-without-email", ""))
             ELSE IF sku = <<>> THEN Respond(200, Body(TRUE, "order-without-sku", ""))
             ELSE IF tag.threw THEN Caught(tag.msg)
             ELSE Proceed(email, tag.val) :
             tag \in {getTagIdFromMap(sku)} }) :
             email \in {Trim(OrElse(payload.email, payload.custEmail))},
             sku \in {matchedSku(payload)} }) :
             payload \in {safeJsonParse(req.raw)} })

(***************************************************************************)
(* The upstream service.  upCfg says where it serves what (host, route     *)
(* prefix, whether it wants the X-API-Key header, which operations it      *)
(* offers, how it wraps lists), whether it rejects a second contact with   *)
(* the same e-mail, whether a create answers with the new id, which form   *)
(* it knows, and whether requests may fail transiently.  up is its data:   *)
(* the contacts in creation order, the (contact, tag) pairs, the e-mails   *)
(* submitted through the form and not yet turned into contacts.            *)
(***************************************************************************)
VARIABLES event, cfg, upCfg, up, hs

pvars == <<event, cfg, upCfg, up, hs>>

\* The tag resolvers: TAG_CACHE of getTagIdByName, the tags upstream has (in
\* creation order), and the latest resolver call with what it did
VARIABLES tCache, tTags, tOut, tInv

tvars == <<tCache, tTags, tOut, tInv>>
vars == <<fvars, pvars, tvars>>

\* let TAG_CACHE = null
NoCache == [nil |-> TRUE, map |-> <<>>]
NoCall == [fn |-> "none", arg |-> <<>>, threw |-> FALSE, val |-> 0,
           reqs |-> <<>>, cached |-> FALSE]

\* The invocations of getTagIdByName that may be in progress together
Invocations == {"g1", "g2"}

\* An invocation of getTagIdByName: where it is (pc), its argument, the
\* listing its request was answered with (data), what it returned (val, 0
\* for null) or that it raised (threw), how many listing requests it has
\* made (listed), whether it has assigned and filled TAG_CACHE (filled) and
\* whether it has returned what TAG_CACHE.get gave it (read)
GIdle ==
    [pc |-> "idle", name |-> <<>>, data |-> <<>>, val |-> 0, threw |-> FALSE,
     listed |-> 0, filled |-> FALSE, read |-> FALSE]

TagsIdle ==
    /\ tCache = NoCache
    /\ tTags = <<>>
    /\ tOut = NoCall
    /\ tInv = [g \in Invocations |-> GIdle]

EncChar(c) == IF c = "@" THEN "%40" ELSE c
DecChar(c) == IF c = "%40" THEN "@" ELSE c
encodeURIComponent(str) == [i \in 1..Len(str) |-> EncChar(str[i])]
decodeURIComponent(str) == [i \in 1..Len(str) |-> DecChar(str[i])]

\* opts of a call: the method and what the JSON body carries
Opts(method, email, tag) == [method |-> method, email |-> email, tag |-> tag]

NoOp == [name |-> "none", q |-> <<>>, n |-> 0]

\* The operation a request path names, once the route prefix is removed
ParseOp(rest, method) ==
    IF method = "GET" /\ Len(rest) = 1 /\ rest[1].name = "contacts?email="
    THEN [name |-> "lookup", q |-> decodeURIComponent(rest[1].q), n |-> 0]
    ELSE IF method = "GET" /\ Len(rest) = 2 /\ rest[1] = Lit("contacts")
            /\ rest[2].name = "search?email="
    THEN [name |-> "search", q |-> decodeURIComponent(rest[2].q), n |-> 0]
    ELSE IF method = "POST" /\ rest = <<Lit("contacts")>>
    THEN [name |-> "create", q |-> <<>>, n |-> 0]
    ELSE IF method = "POST" /\ Len(rest) = 3 /\ rest[1] = Lit("contacts")
            /\ rest[2].name = "id" /\ rest[3] = Lit("tags")
    THEN [name |-> "attach", q |-> <<>>, n |-> rest[2].n]
    ELSE IF method = "POST" /\ Len(rest) = 3 /\ rest[1] = Lit("forms")
            /\ rest[2].name = "formId" /\ rest[3] = Lit("subscribe")
    THEN [name |-> "form", q |-> rest[2].q, n |-> 0]
    ELSE NoOp

\* The operation of the upstream that attempt a addresses, NoOp for a URL
\* the upstream does not serve
Served(a, method) ==
    LET pre == upCfg.prefix
        segs == a.path.segs
    IN  IF a.base = upCfg.base /\ a.path.lead /\ Len(segs) >= Len(pre)
           /\ SubSeq(segs, 1, Len(pre)) = pre
        THEN Sole({ Sole({ IF op.name \in upCfg.ops THEN op ELSE NoOp :
                           op \in {ParseOp(rest, method)} }) :
                    rest \in {SubSeq(segs, Len(pre) + 1, Len(segs))} })
        ELSE NoOp

AuthOk(a) ==
    \/ upCfg.auth = "any"
    \/ upCfg.auth = "key" /\ a.auth = "withKey"
    \/ upCfg.auth = "nokey" /\ a.auth = "noKey"

SameEmail(a, b) == toLowerCase(a) = toLowerCase(b)

HasEmail(contacts, email) ==
    \E i \in 1..Len(contacts) : SameEmail(contacts[i].email, email)

HasId(contacts, n) == \E i \in 1..Len(contacts) : contacts[i].id = n

\* The answer of the upstream to one request.  fault is "none", "503" (the
\* route that serves the request answers 503) or "down" (no connection can
\* be made: fetch throws, whatever the URL)
UpstreamAnswer(a, opts, fault) ==
    Sole({
        IF fault = "down" THEN NetErr
        ELSE IF op.name = "none" THEN Http(404, Garbage)
        ELSE IF ~AuthOk(a) THEN Http(401, JsonText(ErrJson))
        ELSE IF fault = "503" THEN Http(503, Garbage)
        ELSE IF op.name \in {"lookup", "search"}
        THEN Http(200, JsonText(Json(upCfg.list, up.contacts, NoId)))
        ELSE IF op.name = "create"
        THEN IF upCfg.unique /\ HasEmail(up.contacts, opts.email)
             THEN Http(422, JsonText(ErrJson))
             ELSE Http(201, IF upCfg.echoId
                            THEN JsonText(Json("obj", <<>>, Id(Len(up.contacts) + 1)))
                            ELSE Blank)
        ELSE IF op.name = "attach"
        THEN IF HasId(up.contacts, op.n) THEN Http(200, Blank)
             ELSE Http(404, JsonText(ErrJson))
        ELSE IF op.q = upCfg.form THEN Http(200, Blank)
        ELSE Http(404, JsonText(ErrJson)) :
        op \in {Served(a, opts.method)} })

\* What a request answered 2xx has changed upstream
Effect(a, opts) ==
    LET op == Served(a, opts.method)
    IN  IF op.name = "create"
        THEN [up EXCEPT !.contacts =
                 Append(@, [id |-> Len(@) + 1, email |-> opts.email])]
        ELSE IF op.name = "attach"
        THEN [up EXCEPT !.tags = @ \cup {<<op.n, opts.tag>>}]
        ELSE IF op.name = "form"
        THEN [up EXCEPT !.pending = @ \cup {opts.email}]
        ELSE up

\* await systemeFetch(path, opts, {tolerate404}) against the upstream: the
\* outcome, whether a request was issued, and the upstream afterwards
systemeFetch(path, opts, tol, fault) ==
    Sole({ Sole({ Sole({ Sole({ [ok |-> run.out.kind = "return" /\ run.out.res.ok,
                                 threw |-> run.out.kind = "throw",
                                 json |-> run.out.res.json,
                                 n |-> run.n,
                                 up |-> IF run.out.kind = "return" /\ run.out.res.ok
                                        THEN Effect(as[run.n], o) ELSE up] :
                                run \in {RunLoop(resps, 1, Null, Null, tol)} }) :
                         resps \in {[k \in 1..Len(as) |->
                                       UpstreamAnswer(as[k], o, fault)]} }) :
                  as \in {attempts(p, cfg.base)} }) :
           p \in {path}, o \in {opts} })

Faults == IF upCfg.faulty THEN {"none", "503", "down"} ELSE {"none"}

(***************************************************************************)
(* Contacts (lines 137-256).                                               *)
(***************************************************************************)
Api == Lits(<<"api">>)
ApiPublic == Lits(<<"api", "public">>)
Public == Lits(<<"public">>)
Prefixes4 == <<Api, ApiPublic, <<>>, Public>>

\* candidates of findContactIdByEmail (lines 140-147)
findCandidates(email) ==
    LET q == encodeURIComponent(email)
    IN  [i \in 1..4 |-> Path(TRUE, Prefixes4[i] \o <<QSeg("contacts?email=", q)>>)]
        \o << Path(TRUE, Api \o <<Lit("contacts"), QSeg("search?email=", q)>>),
              Path(TRUE, ApiPublic \o <<Lit("contacts"), QSeg("search?email=", q)>>) >>

\* candidates of createContact (lines 203-208)
createCandidates == [i \in 1..4 |-> Path(TRUE, Prefixes4[i] \o <<Lit("contacts")>>)]

\* routes of subscribeViaForm (lines 174-178)
formRoutes(formId) ==
    LET tail == <<Lit("forms"), QSeg("formId", formId), Lit("subscribe")>>
    IN  << Path(TRUE, ApiPublic \o tail), Path(TRUE, Public \o tail),
           Path(TRUE, Api \o tail) >>

\* The two /api paths only
attachPathsApiOnly(contactId) ==
    [i \in 1..2 |->
        Path(TRUE, Prefixes4[i] \o <<Lit("contacts"), NSeg("id", contactId), Lit("tags")>>)]

\* paths of assignTagToContact (lines 239-244)
attachPaths(contactId) ==
    [i \in 1..4 |->
        Path(TRUE, Prefixes4[i] \o <<Lit("contacts"), NSeg("id", contactId), Lit("tags")>>)]

\* for (let i = 0; i < 3; i++) of subscribeViaForm
MaxPolls == 3

\* The list a lookup answer carries (lines 153-156)
ListOf(json) == IF json.kind \in {"items", "array", "data"} THEN json.items ELSE <<>>

\* FindInList without the comparison of e-mails: list[0]?.id
FirstOfList(list, email) == IF list = <<>> THEN NoId ELSE Id(list[1].id)

\* list.find(c => c.email.toLowerCase() === email.toLowerCase())?.id
RECURSIVE FindInList(_, _)
FindInList(list, email) ==
    IF list = <<>> THEN NoId
    ELSE IF SameEmail(Head(list).email, email) THEN Id(Head(list).id)
    ELSE FindInList(Tail(list), email)

\* null, as returned by findContactIdByEmail and subscribeViaForm
NullId == Num(0)

\* res.status(s).json(b): the invocation ends
Send(st, r) ==
    [st EXCEPT !.pc = "done", !.status = r.status, !.body = r.body, !.nResp = @ + 1]

\* assignTagToContact(contactId, tagId) is entered
ToAttach(st, id) ==
    [st EXCEPT !.pc = "attach", !.i = 1, !.contactId = id, !.nAssign = @ + 1]

\* subscribeViaForm has returned null, or never returned an id: createContact
\* throws (line 222), nothing catches it before the handler
CreateContactThrows(st) == Send(st, Caught("create-failed"))

\* The next route of subscribeViaForm, or its "return null" (lines 196-198)
NextFormRoute(st) ==
    IF st.r < Len(formRoutes(cfg.formId))
    THEN [st EXCEPT !.pc = "form", !.r = @ + 1]
    ELSE CreateContactThrows(st)

\* AfterDirectCreate without the test of the form id (line 169)
AfterDirectCreateAnyForm(st) == [st EXCEPT !.pc = "form", !.r = 1]

\* What follows the last direct create candidate (lines 219-222)
AfterDirectCreate(st) ==
    IF cfg.formId = <<>> THEN CreateContactThrows(st)
    ELSE [st EXCEPT !.pc = "form", !.r = 1]

\* LookupReturns where upsertSystemeContact returns "again" untested
LookupReturnsAgainUnchecked(st, id) ==
    IF st.phase = "first"
    THEN IF Truthy(id) THEN ToAttach(st, id)
         ELSE [st EXCEPT !.pc = "create", !.i = 1]
    ELSE IF st.phase = "poll"
    THEN IF Truthy(id) THEN ToAttach(st, id)
         ELSE IF st.k < MaxPolls THEN [st EXCEPT !.pc = "sleep", !.k = @ + 1]
         ELSE NextFormRoute(st)
    ELSE ToAttach(st, id)

\* findContactIdByEmail has returned id to its caller
LookupReturns(st, id) ==
    IF st.phase = "first"
    THEN IF Truthy(id) THEN ToAttach(st, id)
         ELSE [st EXCEPT !.pc = "create", !.i = 1]
    ELSE IF st.phase = "poll"
    THEN IF Truthy(id) THEN ToAttach(st, id)
         ELSE IF st.k < MaxPolls THEN [st EXCEPT !.pc = "sleep", !.k = @ + 1]
         ELSE NextFormRoute(st)
    ELSE IF Truthy(id) THEN ToAttach(st, id)
         ELSE Send(st, Caught("upsert-failed"))

\* CreateReturns without the test of the id
CreateReturnsUnchecked(st, id) == ToAttach(st, id)

\* createContact has returned id (line 212), upsertSystemeContact goes on
\* (lines 230-232)
CreateReturns(st, id) ==
    IF Truthy(id) THEN ToAttach(st, id)
    ELSE [st EXCEPT !.pc = "lookup", !.phase = "again", !.i = 1]

(***************************************************************************)
(* Handler invocations.  hs[h] is invocation h: where it awaits (pc, and   *)
(* for the loops: phase = which findContactIdByEmail call, i = candidate,  *)
(* r = form route, k = poll), its locals, the response it has sent (nResp  *)
(* counts them), whether it has issued an upstream request (used), which   *)
(* function issued its latest systemeFetch call (last), whether a          *)
(* findContactIdByEmail call has returned null (missed), how many calls of *)
(* createContact's direct candidates have not returned ok (nCreateFail),   *)
(* how often assignTagToContact has been entered (nAssign), and how many   *)
(* form submissions of subscribeViaForm were answered 2xx (nFormOk).       *)
(***************************************************************************)
Handlers == {"h1", "h2"}

HStart ==
    [pc |-> "start", phase |-> "first", i |-> 1, r |-> 1, k |-> 1,
     email |-> <<>>, tagId |-> 0, contactId |-> NullId,
     status |-> 0, body |-> Body(TRUE, "", ""), nResp |-> 0,
     used |-> FALSE, last |-> "none", missed |-> FALSE, nCreateFail |-> 0,
     nAssign |-> 0, nFormOk |-> 0]

HOff == [HStart EXCEPT !.pc = "off"]

\* handler up to its first upstream request (lines 259-299)
Receive(h) ==
    /\ hs[h].pc = "start"
    /\ \E r \in {handlerSync(event, cfg)} :
           hs' = [hs EXCEPT ![h] =
                     IF r.kind = "respond" THEN Send(@, r)
                     ELSE [@ EXCEPT !.pc = "lookup", !.phase = "first", !.i = 1,
                                    !.email = r.email, !.tagId = r.tagId]]
    /\ UNCHANGED <<event, cfg, upCfg, up, fvars, tvars>>

\* LookupStep without the try/catch: an error of systemeFetch leaves
\* findContactIdByEmail and upsertSystemeContact and reaches the handler
LookupStepUncaught(st, c) ==
    IF c.threw THEN Send(st, Caught("upsert-failed"))
    ELSE LET idf == IF c.ok THEN FindInList(ListOf(c.json), st.email) ELSE NoId
         IN  IF Truthy(NumberOfId(idf)) THEN LookupReturns(st, NumberOfId(idf))
             ELSE IF st.i < Len(findCandidates(st.email))
             THEN [st EXCEPT !.i = @ + 1]
             ELSE LookupReturns([st EXCEPT !.missed = TRUE], NullId)

\* LookupStep where a candidate that did not answer ok is tried again
LookupStepRetries(st, c) ==
    LET idf == IF c.ok THEN FindInList(ListOf(c.json), st.email) ELSE NoId
    IN  IF ~c.ok THEN st
        ELSE IF Truthy(NumberOfId(idf)) THEN LookupReturns(st, NumberOfId(idf))
        ELSE IF st.i < Len(findCandidates(st.email))
        THEN [st EXCEPT !.i = @ + 1]
        ELSE LookupReturns([st EXCEPT !.missed = TRUE], NullId)

\* The body of the loop of findContactIdByEmail for the answer c of
\* systemeFetch (lines 149-161), and "return null" after the last candidate
LookupStep(st, c) ==
    LET idf == IF c.ok THEN FindInList(ListOf(c.json), st.email) ELSE NoId
    IN  IF Truthy(NumberOfId(idf)) THEN LookupReturns(st, NumberOfId(idf))
        ELSE IF st.i < Len(findCandidates(st.email))
        THEN [st EXCEPT !.i = @ + 1]
        ELSE LookupReturns([st EXCEPT !.missed = TRUE], NullId)

\* One iteration of the loop of findContactIdByEmail (lines 148-162), and
\* what its caller does when the function returns
LookupCall(h) ==
    /\ hs[h].pc = "lookup"
    /\ \E fault \in Faults :
         \E st \in {hs[h]} :
         \E c \in {systemeFetch(findCandidates(st.email)[st.i],
                                Opts("GET", st.email, 0), TRUE, fault)} :
         \E st1 \in {[st EXCEPT !.used = TRUE, !.last = "lookup"]} :
             /\ hs' = [hs EXCEPT ![h] = LookupStep(st1, c)]
             /\ up' = c.up
    /\ UNCHANGED <<event, cfg, upCfg, fvars, tvars>>

\* One iteration of the first loop of createContact (lines 209-216), and
\* what follows when it returns or the loop ends
CreateCall(h) ==
    /\ hs[h].pc = "create"
    /\ \E fault \in Faults :
         \E c \in {systemeFetch(createCandidates[hs[h].i],
                                Opts("POST", hs[h].email, 0), TRUE, fault)} :
         \E st \in {[hs[h] EXCEPT !.used = TRUE, !.last = "create"]} :
         \E sf \in {[st EXCEPT !.nCreateFail = @ + 1]} :
             /\ hs' = [hs EXCEPT ![h] =
                          IF c.ok THEN CreateReturns(st, NumberOfId(c.json.id))
                          ELSE IF st.i < Len(createCandidates)
                          THEN [sf EXCEPT !.i = @ + 1]
                          ELSE AfterDirectCreate(sf)]
             /\ up' = c.up
    /\ UNCHANGED <<event, cfg, upCfg, fvars, tvars>>

\* One iteration of the loop of subscribeViaForm up to its first sleep
\* (lines 180-195)
FormCall(h) ==
    /\ hs[h].pc = "form"
    /\ \E fault \in Faults :
         \E c \in {systemeFetch(formRoutes(cfg.formId)[hs[h].r],
                                Opts("POST", hs[h].email, 0), TRUE, fault)} :
         \E st \in {[hs[h] EXCEPT !.used = TRUE, !.last = "form"]} :
             /\ hs' = [hs EXCEPT ![h] =
                          IF c.ok THEN [st EXCEPT !.pc = "sleep", !.k = 1,
                                                  !.nFormOk = @ + 1]
                          ELSE NextFormRoute(st)]
             /\ up' = c.up
    /\ UNCHANGED <<event, cfg, upCfg, fvars, tvars>>

\* await sleep(700), then findContactIdByEmail is entered (lines 186-187)
Sleep(h) ==
    /\ hs[h].pc = "sleep"
    /\ hs' = [hs EXCEPT ![h] = [@ EXCEPT !.pc = "lookup", !.phase = "poll", !.i = 1]]
    /\ UNCHANGED <<event, cfg, upCfg, up, fvars, tvars>>

\* One iteration of the loop of assignTagToContact (lines 247-255), and the
\* end of handler (lines 304-306)
AttachCall(h) ==
    /\ hs[h].pc = "attach"
    /\ \E fault \in Faults :
         \E c \in {systemeFetch(attachPaths(hs[h].contactId.n)[hs[h].i],
                                Opts("POST", hs[h].email, hs[h].tagId), TRUE, fault)} :
         \E st \in {[hs[h] EXCEPT !.used = TRUE, !.last = "attach"]} :
             /\ hs' = [hs EXCEPT ![h] =
                          IF c.ok THEN Send(st, Respond(200, Body(TRUE, "", "")))
                          ELSE IF st.i < Len(attachPaths(st.contactId.n))
                          THEN [st EXCEPT !.i = @ + 1]
                          ELSE Send(st, Caught("assign-failed"))]
             /\ up' = c.up
    /\ UNCHANGED <<event, cfg, upCfg, fvars, tvars>>

\* The upstream turns a form submission into a contact (it does so some time
\* after accepting it); a submission for a known e-mail adds nothing
FormProcessed ==
    /\ \E e \in up.pending :
         up' = [up EXCEPT !.pending = @ \ {e},
                          !.contacts = IF HasEmail(@, e) THEN @
                                       ELSE Append(@, [id |-> Len(@) + 1, email |-> e])]
    /\ UNCHANGED <<event, cfg, upCfg, hs, fvars, tvars>>

Next ==
    \/ \E h \in Handlers : Receive(h)
    \/ \E h \in Handlers : LookupCall(h)
    \/ \E h \in Handlers : CreateCall(h)
    \/ \E h \in Handlers : FormCall(h)
    \/ \E h \in Handlers : Sleep(h)
    \/ \E h \in Handlers : AttachCall(h)
    \/ FormProcessed

(***************************************************************************)
(* Initial states.                                                         *)
(***************************************************************************)
Domain == "shop.myshopify.com"
Secret == "whsec"
FormId == <<"F", "1">>

Req(method, hmac, topic, shop, raw) ==
    [method |-> method, readErr |-> FALSE, hmac |-> hmac, topic |-> topic,
     shop |-> shop, raw |-> raw]

\* X-Shopify-Hmac-Sha256 values for a body: none, the right one, the one of
\* another body, one made with another secret, one of another length
Hmacs(raw) ==
    {NoHeader, Digest(Secret, raw), Digest(Secret, "other-body"),
     Digest("other-secret", raw), [Digest(Secret, raw) EXCEPT !.len = DigestLen - 1]}

Events ==
    {Req(m, hm, t, sh, raw) :
        m \in {"POST", "GET"}, hm \in Hmacs("X1"),
        t \in {"", "orders/paid", "orders/create"},
        sh \in {"", Domain, "Shop.MyShopify.com"}, raw \in {"X1"}}
    \cup {Req("POST", hm, t, Domain, "garbage") :
            hm \in Hmacs("garbage"), t \in {"orders/paid", "orders/create"}}
    \cup {Req("POST", Digest(Secret, raw), t, Domain, raw) :
            t \in {"orders/paid", "orders/create"}, raw \in DOMAIN Bodies}
    \cup {[Req("POST", Digest(Secret, "X1"), "orders/paid", Domain, "X1")
             EXCEPT !.readErr = TRUE]}

Cfg(domain, secret, formId) ==
    [domain |-> domain, secret |-> secret, formId |-> formId, base |-> ""]

Cfgs ==
    {Cfg(Domain, Secret, <<>>), Cfg(Domain, Secret, FormId),
     Cfg("", Secret, <<>>), Cfg(Domain, "", <<>>)}

Shape(base, prefix, auth, ops, list, echoId) ==
    [base |-> base, prefix |-> prefix, auth |-> auth, ops |-> ops, list |-> list,
     echoId |-> echoId, form |-> FormId, unique |-> TRUE, faulty |-> FALSE]

Shapes ==
    {Shape(defaultBase, Api, "key", {"lookup", "create", "attach", "form"}, "items", TRUE),
     Shape(fallbackBase, Public, "nokey", {"lookup", "create", "attach"}, "data", TRUE),
     Shape(defaultBase, ApiPublic, "any", {"search", "attach", "form"}, "array", TRUE),
     Shape(defaultBase, Api, "key", {"lookup", "create", "attach"}, "items", FALSE),
     Shape(fallbackBase, <<>>, "key", {"create", "attach"}, "object", TRUE),
     Shape(defaultBase, Api, "key", {}, "items", TRUE)}

UpCfgs(faulty) ==
    {[sh EXCEPT !.unique = u, !.faulty = faulty] : sh \in Shapes, u \in BOOLEAN}

Seed(contacts) == [contacts |-> contacts, tags |-> {}, pending |-> {}]

Seeds ==
    {Seed(<<[id |-> 1, email |-> EmailOther]>>),
     Seed(<<[id |-> 1, email |-> EmailOther], [id |-> 2, email |-> EmailUpper]>>)}

FetchIdle ==
    /\ fPath = Path(TRUE, <<>>)
    /\ fTol = FALSE
    /\ fBase = ""
    /\ fAttempts = <<>>
    /\ fIdx = 1
    /\ fLast = Null
    /\ fLast404 = Null
    /\ fLog = <<>>
    /\ fSeen = {}
    /\ fPrev = [class |-> "none", resp |-> NetErr]
    /\ fOkAt = 0
    /\ fRes = Pending

\* One delivery of any event
Init ==
    /\ event \in Events
    /\ cfg \in Cfgs
    /\ upCfg \in UpCfgs(TRUE)
    /\ up \in Seeds
    /\ hs = [h \in Handlers |-> IF h = "h1" THEN HStart ELSE HOff]
    /\ FetchIdle
    /\ TagsIdle

Spec == Init /\ [][Next]_vars

\* Two deliveries of one paid-order event that passes verification and
\* names a mapped SKU, to an upstream that answers every request and offers
\* a way to look contacts up
DupInit ==
    /\ event \in {Req("POST", Digest(Secret, raw), "orders/paid", Domain, raw) :
                    raw \in {"X1", "customer-X1"}}
    /\ cfg \in {Cfg(Domain, Secret, <<>>), Cfg(Domain, Secret, FormId)}
    /\ upCfg \in {c \in UpCfgs(FALSE) : c.ops \cap {"lookup", "search"} # {}}
    /\ up \in Seeds
    /\ hs = [h \in Handlers |-> HStart]
    /\ FetchIdle
    /\ TagsIdle

SpecDup == DupInit /\ [][Next]_vars

\* A step of invocation h: the continuation of an await runs
Step(h) ==
    \/ Receive(h)
    \/ LookupCall(h)
    \/ CreateCall(h)
    \/ FormCall(h)
    \/ Sleep(h)
    \/ AttachCall(h)

\* One delivery of an orders/paid event that passes verification, with any
\* body, to any upstream
LiveInit ==
    /\ event \in {e \in Events : /\ e.method = "POST"
                                  /\ ~e.readErr
                                  /\ e.topic = "orders/paid"
                                  /\ e.shop = Domain
                                  /\ e.hmac = Digest(Secret, e.raw)}
    /\ cfg \in {Cfg(Domain, Secret, <<>>), Cfg(Domain, Secret, FormId)}
    /\ upCfg \in UpCfgs(TRUE)
    /\ up \in Seeds
    /\ hs = [h \in Handlers |-> IF h = "h1" THEN HStart ELSE HOff]
    /\ FetchIdle
    /\ TagsIdle

\* Every upstream request completes (with an answer or a network error)
\* and every sleep timer fires: an invocation that awaits a call or a timer
\* is resumed
SpecLive == LiveInit /\ [][Next]_vars /\ \A h \in Handlers : WF_vars(Step(h))

\* "await fetch(attempt.url, ...)" (line 96) of a request that never
\* completes: the promise stays pending, and nothing else in systemeFetch
\* or its callers settles or abandons it, so the invocation is never resumed
Stall(h) ==
    /\ hs[h].pc \in {"lookup", "create", "form", "attach"}
    /\ hs' = [hs EXCEPT ![h] = [@ EXCEPT !.pc = "stalled", !.used = TRUE]]
    /\ UNCHANGED <<event, cfg, upCfg, up, fvars, tvars>>

NextStall ==
    \/ \E h \in Handlers : Receive(h)
    \/ \E h \in Handlers : LookupCall(h)
    \/ \E h \in Handlers : CreateCall(h)
    \/ \E h \in Handlers : FormCall(h)
    \/ \E h \in Handlers : Sleep(h)
    \/ \E h \in Handlers : AttachCall(h)
    \/ \E h \in Handlers : Stall(h)
    \/ FormProcessed

\* One delivery of a paid order to an upstream that answers every request
\* it answers at all without a fault
StallInit ==
    /\ event \in {Req("POST", Digest(Secret, raw), "orders/paid", Domain, raw) :
                    raw \in {"X1", "customer-X1"}}
    /\ cfg \in {Cfg(Domain, Secret, <<>>), Cfg(Domain, Secret, FormId)}
    /\ upCfg \in UpCfgs(FALSE)
    /\ up \in Seeds
    /\ hs = [h \in Handlers |-> IF h = "h1" THEN HStart ELSE HOff]
    /\ FetchIdle
    /\ TagsIdle

\* As SpecLive, but an upstream request may also never complete
SpecStall == StallInit /\ [][NextStall]_vars /\ \A h \in Handlers : WF_vars(Step(h))

ProtocolIdle ==
    /\ event = Req("GET", NoHeader, "", "", "garbage")
    /\ cfg = Cfg("", "", <<>>)
    /\ upCfg = Shape(defaultBase, Api, "key", {}, "items", TRUE)
    /\ up = Seed(<<>>)
    /\ hs = [h \in Handlers |-> HOff]

(***************************************************************************)
(* SpecFetch: one systemeFetch(path, opts, {tolerate404}) call.            *)
(***************************************************************************)
FetchPaths ==
    {Path(TRUE, Lits(<<"api", "contacts">>)),
     Path(TRUE, Lits(<<"api", "public", "contacts">>)),
     Path(TRUE, Lits(<<"public", "contacts">>)),
     Path(TRUE, Lits(<<"contacts">>)),
     Path(FALSE, Lits(<<"contacts">>)),
     Path(TRUE, Lits(<<"api">>))}

BaseOverrides == {"", "https://systeme.io", "https://proxy.example"}

OkStatuses == {200, 201}
TransientStatuses == {429, 503}
RejectStatuses == {422}

\* Body texts of 2xx answers and of error answers
Texts == {Blank, Garbage, JsonText(Json("obj", <<>>, Id(7)))}
ErrTexts == {Garbage, JsonText(ErrJson)}

FetchInit ==
    /\ fPath \in FetchPaths
    /\ fTol \in BOOLEAN
    /\ fBase \in BaseOverrides
    /\ fAttempts = attempts(fPath, fBase)
    /\ fIdx = 1
    /\ fLast = Null
    /\ fLast404 = Null
    /\ fLog = <<>>
    /\ fSeen = {}
    /\ fPrev = [class |-> "none", resp |-> NetErr]
    /\ fOkAt = 0
    /\ fRes = Pending
    /\ ProtocolIdle
    /\ TagsIdle

\* One iteration of "for (const attempt of attempts)": the request is issued
\* and answered by resp; after the last attempt lines 119-122 run as well
Iterate(resp, class) ==
    LET as == fAttempts
        b == LoopBody(fLast, fLast404, resp)
        nxt == NextAttempt(fIdx)
    IN  /\ fIdx <= Len(as)
        /\ fLog' = Append(fLog, as[fIdx])
        /\ fSeen' = fSeen \cup {class}
        /\ fPrev' = [class |-> class, resp |-> resp]
        /\ fOkAt' = IF class = "2xx" /\ fOkAt = 0 THEN fIdx ELSE fOkAt
        /\ fLast' = b.last
        /\ fLast404' = b.last404
        /\ fIdx' = nxt
        /\ fRes' = IF b.out.kind # "pending" THEN b.out
                   ELSE IF nxt > Len(as) THEN Exhausted(fTol, b.last, b.last404)
                   ELSE Pending
        /\ UNCHANGED <<fPath, fTol, fBase, fAttempts, pvars, tvars>>

\* The upstream's answers to one request
AttemptOk ==
    /\ fRes.kind = "pending"
    /\ \E s \in OkStatuses, t \in Texts : Iterate(Http(s, t), "2xx")

Attempt404 ==
    /\ fRes.kind = "pending"
    /\ \E t \in ErrTexts : Iterate(Http(404, t), "404")

AttemptTransient ==
    /\ fRes.kind = "pending"
    /\ \E s \in TransientStatuses : Iterate(Http(s, Garbage), "transient")

AttemptRejected ==
    /\ fRes.kind = "pending"
    /\ \E s \in RejectStatuses : Iterate(Http(s, JsonText(ErrJson)), "4xx")

AttemptNetError ==
    /\ fRes.kind = "pending"
    /\ Iterate(NetErr, "neterr")

FetchNext ==
    \/ AttemptOk
    \/ Attempt404
    \/ AttemptTransient
    \/ AttemptRejected
    \/ AttemptNetError

SpecFetch == FetchInit /\ [][FetchNext]_vars


(***************************************************************************)
(* SpecTags: the tag resolvers, called any number of times in one process. *)
(* getTagIdFromMap is the resolver of src/api/orders-paid.js;              *)
(* getTagIdByName (with TAG_CACHE) and resolveSystemeTagId are the         *)
(* resolvers of the earlier revisions kept in src/unnamed/part_001.        *)
(***************************************************************************)
Tag(name, id) == [name |-> name, id |-> id]

Vip == <<"v", "i", "p">>
VipUpper == <<"V", "I", "P">>
Pro == <<"p", "r", "o">>

LowerTagChar(c) ==
    CASE c = "V" -> "v" [] c = "I" -> "i" [] c = "P" -> "p" [] OTHER -> c

\* String(name).toLowerCase() of a tag name
LowerName(name) == [i \in 1..Len(name) |-> LowerTagChar(name[i])]

\* TAG_CACHE.set(key, id)
MapSet(map, key, id) ==
    [k \in DOMAIN map \cup {key} |-> IF k = key THEN id ELSE map[k]]

\* new Map(), then TAG_CACHE.set(name.toLowerCase(), t.id) for each item
RECURSIVE CacheOf(_)
CacheOf(items) ==
    IF items = <<>> THEN <<>>
    ELSE MapSet(CacheOf(SubSeq(items, 1, Len(items) - 1)),
                LowerName(items[Len(items)].name), items[Len(items)].id)

\* TAG_CACHE.get(name.toLowerCase()) || null; 0 stands for null
CacheGet(map, name) ==
    IF LowerName(name) \in DOMAIN map THEN map[LowerName(name)] ELSE 0

\* The name is a key of TAG_CACHE
InCache(cache, name) == ~cache.nil /\ LowerName(name) \in DOMAIN cache.map

Call(fn, arg, threw, val, reqs, cached) ==
    [fn |-> fn, arg |-> arg, threw |-> threw, val |-> val, reqs |-> reqs,
     cached |-> cached]

\* getTagIdByName(name) where the listing request, if one is made, is
\* answered ok or not: the call and the cache afterwards
getTagIdByName(name, cache, tags, listOk) ==
    IF name = <<>>
    THEN [out |-> Call("getTagIdByName", name, FALSE, 0, <<>>, FALSE), cache |-> cache]
    ELSE IF cache.nil
    THEN IF ~listOk
         THEN [out |-> Call("getTagIdByName", name, FALSE, 0, <<"list">>, FALSE),
               cache |-> cache]
         ELSE [out |-> Call("getTagIdByName", name, FALSE, CacheGet(CacheOf(tags), name),
                            <<"list">>, FALSE),
               cache |-> [nil |-> FALSE, map |-> CacheOf(tags)]]
    ELSE [out |-> Call("getTagIdByName", name, FALSE, CacheGet(cache.map, name), <<>>,
                       InCache(cache, name)),
          cache |-> cache]

\* items.find(t => String(t.name).toLowerCase() === desired)?.id; 0 when
\* there is none
RECURSIVE FindTag(_, _)
FindTag(items, desired) ==
    IF items = <<>> THEN 0
    ELSE IF LowerName(Head(items).name) = desired THEN Head(items).id
    ELSE FindTag(Tail(items), desired)

\* resolveSystemeTagId(tagValue) where the listing request is answered ok or
\* not and the create request ok with the new id, ok without an id, or not
\* ok: the call and the upstream tags afterwards
resolveSystemeTagId(tagValue, tags, listOk, create) ==
    IF IsDigits(tagValue)
    THEN [out |-> Call("resolveSystemeTagId", tagValue, FALSE, NumberOfDigits(tagValue),
                       <<>>, FALSE),
          tags |-> tags]
    ELSE IF ~listOk
    THEN [out |-> Call("resolveSystemeTagId", tagValue, TRUE, 0, <<"list">>, FALSE),
          tags |-> tags]
    ELSE IF FindTag(tags, LowerName(Trim(tagValue))) # 0
    THEN [out |-> Call("resolveSystemeTagId", tagValue, FALSE,
                       FindTag(tags, LowerName(Trim(tagValue))), <<"list">>, FALSE),
          tags |-> tags]
    ELSE IF create = "fails"
    THEN [out |-> Call("resolveSystemeTagId", tagValue, TRUE, 0, <<"list", "create">>,
                       FALSE),
          tags |-> tags]
    ELSE IF create = "noid"
    THEN [out |-> Call("resolveSystemeTagId", tagValue, TRUE, 0, <<"list", "create">>,
                       FALSE),
          tags |-> Append(tags, Tag(tagValue, Len(tags) + 1))]
    ELSE [out |-> Call("resolveSystemeTagId", tagValue, FALSE, Len(tags) + 1,
                       <<"list", "create">>, FALSE),
          tags |-> Append(tags, Tag(tagValue, Len(tags) + 1))]

\* SKUs and tag-map values the resolvers are called with
Skus == DOMAIN TagMap \cup {Z9}
TagValues == {TagMap[k] : k \in DOMAIN TagMap} \cup {VipUpper}
TagNames == {Vip, VipUpper, Pro, <<>>}

\* The most tags upstream holds
MaxTags == 3

TagsInit ==
    /\ tCache = NoCache
    /\ tTags \in {<<>>, <<Tag(Pro, 1)>>, <<Tag(VipUpper, 1), Tag(Pro, 2)>>}
    /\ tOut = NoCall
    /\ tInv = [g \in Invocations |-> GIdle]
    /\ FetchIdle
    /\ ProtocolIdle

\* getTagIdFromMap(sku) is called
MapResolve ==
    /\ \E sku \in Skus :
         \E r \in {getTagIdFromMap(sku)} :
             tOut' = Call("getTagIdFromMap", IF sku \in DOMAIN TagMap THEN TagMap[sku] ELSE <<>>,
                          r.threw, r.val, <<>>, FALSE)
    /\ UNCHANGED <<tCache, tTags, tInv, fvars, pvars>>

\* getTagIdByName(name) is called
NameLookup ==
    /\ \E name \in TagNames, listOk \in BOOLEAN :
         \E r \in {getTagIdByName(name, tCache, tTags, listOk)} :
             /\ tOut' = r.out
             /\ tCache' = r.cache
    /\ UNCHANGED <<tTags, tInv, fvars, pvars>>

\* resolveSystemeTagId(tagValue) is called
NameResolve ==
    /\ \E v \in TagValues, listOk \in BOOLEAN, create \in {"id", "noid", "fails"} :
         \E r \in {resolveSystemeTagId(v, tTags, listOk, create)} :
             /\ Len(r.tags) <= MaxTags
             /\ tOut' = r.out
             /\ tTags' = r.tags
    /\ UNCHANGED <<tCache, tInv, fvars, pvars>>

\* Somebody else creates a tag upstream
TagAdded ==
    /\ Len(tTags) < MaxTags
    /\ \E name \in {Vip, Pro} :
         /\ FindTag(tTags, name) = 0
         /\ tTags' = Append(tTags, Tag(name, Len(tTags) + 1))
    /\ UNCHANGED <<tCache, tOut, tInv, fvars, pvars>>

TagsNext ==
    \/ MapResolve
    \/ NameLookup
    \/ NameResolve
    \/ TagAdded

SpecTags == TagsInit /\ [][TagsNext]_vars

(***************************************************************************)
(* SpecRace: two invocations of getTagIdByName (src/unnamed/part_001,      *)
(* lines 34-50) in one process, started while TAG_CACHE is unset.  An      *)
(* invocation gives up control only at its awaits: of systeme(...), of     *)
(* r.text() and of r.json(); what lies between two awaits is one step.     *)
(***************************************************************************)
\* Lines 35-37: "if (!name) return null", "if (!TAG_CACHE)" and either the
\* listing request or, the cache being set, line 49
Enter(g) ==
    /\ tInv[g].pc = "start"
    /\ tInv' = [tInv EXCEPT ![g] =
                   IF @.name = <<>> THEN [@ EXCEPT !.pc = "done"]
                   ELSE IF tCache.nil
                   THEN [@ EXCEPT !.pc = "listing", !.listed = @ + 1]
                   ELSE [@ EXCEPT !.pc = "done", !.read = TRUE,
                                  !.val = CacheGet(tCache.map, tInv[g].name)]]
    /\ UNCHANGED <<tCache, tTags, tOut, fvars, pvars>>

\* await systeme("/api/tags?limit=200") is over (line 37): the request was
\* answered 2xx with the tags upstream holds, or not ok, or fetch threw
ListAnswered(g) ==
    /\ tInv[g].pc = "listing"
    /\ \E answer \in {"ok", "notOk", "throws"} :
         tInv' = [tInv EXCEPT ![g] =
                     IF answer = "ok" THEN [@ EXCEPT !.pc = "json", !.data = tTags]
                     ELSE IF answer = "notOk" THEN [@ EXCEPT !.pc = "text"]
                     ELSE [@ EXCEPT !.pc = "done", !.threw = TRUE]]
    /\ UNCHANGED <<tCache, tTags, tOut, fvars, pvars>>

\* await r.text() is over: the error is logged, null returned (lines 39-41)
ErrorRead(g) ==
    /\ tInv[g].pc = "text"
    /\ tInv' = [tInv EXCEPT ![g] = [@ EXCEPT !.pc = "done"]]
    /\ UNCHANGED <<tCache, tTags, tOut, fvars, pvars>>

\* JsonParsed that gives up control between "TAG_CACHE = new Map()" and
\* the loop that fills it
JsonParsedYields(g) ==
    /\ tInv[g].pc \in {"json", "fill"}
    /\ IF tInv[g].pc = "json"
       THEN /\ tCache' = [nil |-> FALSE, map |-> <<>>]
            /\ tInv' = [tInv EXCEPT ![g] = [@ EXCEPT !.pc = "fill"]]
       ELSE /\ tCache' = [nil |-> FALSE, map |-> CacheOf(tInv[g].data)]
            /\ tInv' = [tInv EXCEPT ![g] =
                           [@ EXCEPT !.pc = "done", !.filled = TRUE, !.read = TRUE,
                                     !.val = CacheGet(CacheOf(tInv[g].data),
                                                        tInv[g].name)]]
    /\ UNCHANGED <<tTags, tOut, fvars, pvars>>

\* await r.json() is over (line 43): it threw, or lines 44-49 run:
\* TAG_CACHE = new Map(), the loop that fills it, and the return
JsonParsed(g) ==
    /\ tInv[g].pc = "json"
    /\ \E parsed \in BOOLEAN :
         IF parsed
         THEN /\ tCache' = [nil |-> FALSE, map |-> CacheOf(tInv[g].data)]
              /\ tInv' = [tInv EXCEPT ![g] =
                             [@ EXCEPT !.pc = "done", !.filled = TRUE, !.read = TRUE,
                                       !.val = CacheGet(CacheOf(tInv[g].data),
                                                        tInv[g].name)]]
         ELSE /\ tCache' = tCache
              /\ tInv' = [tInv EXCEPT ![g] = [@ EXCEPT !.pc = "done", !.threw = TRUE]]
    /\ UNCHANGED <<tTags, tOut, fvars, pvars>>

RaceInit ==
    /\ tCache = NoCache
    /\ tTags \in {<<>>, <<Tag(Pro, 1)>>, <<Tag(VipUpper, 1), Tag(Pro, 2)>>}
    /\ tOut = NoCall
    /\ tInv \in [Invocations -> {[GIdle EXCEPT !.pc = "start", !.name = n] :
                                    n \in TagNames}]
    /\ FetchIdle
    /\ ProtocolIdle

RaceNext ==
    \/ \E g \in Invocations : Enter(g)
    \/ \E g \in Invocations : ListAnswered(g)
    \/ \E g \in Invocations : ErrorRead(g)
    \/ \E g \in Invocations : JsonParsed(g)
    \/ TagAdded

SpecRace == RaceInit /\ [][RaceNext]_vars

(***************************************************************************)
(* Properties of systemeFetch, stated for SpecFetch.  fLog is the          *)
(* sequence of requests issued so far, fSeen the kinds of answers received,*)
(* fPrev the latest answer, fOkAt the position of the first 2xx answer.    *)
(***************************************************************************)
Done == fRes.kind # "pending"
Last(s) == s[Len(s)]
SameVariant(a, b) == a.base = b.base /\ a.path = b.path /\ a.auth = b.auth

\* C4: the first attempt answered 2xx ends the call: the call returns
\* {ok: true, status, json} of that attempt and the request answered 2xx is
\* the last request issued (404, 404, 2xx gives exactly three requests).
C4_FirstOkEndsCall ==
    fOkAt # 0 =>
        /\ Len(fLog) = fOkAt
        /\ fPrev.class = "2xx"
        /\ fRes = Return(Result(TRUE, fPrev.resp.status, ParseText(fPrev.resp.text)))

C4_Witness ==
    /\ fOkAt = 3
    /\ Len(fLog) = 3
    /\ fSeen = {"404", "2xx"}
    /\ fRes.kind = "return"
    /\ fRes.res.ok

\* C5: when every attempt answered 404, the call returns the not-found
\* result {ok: false, status: 404} if tolerate404, and raises otherwise.
C5_All404 ==
    (Done /\ fSeen = {"404"}) =>
        IF fTol
        THEN fRes.kind = "return" /\ ~fRes.res.ok /\ fRes.res.status = 404
        ELSE fRes.kind = "throw"

C5_Witness ==
    /\ Done
    /\ fSeen = {"404"}
    /\ fTol
    /\ fRes.kind = "return"
    /\ Len(fLog) = Len(fAttempts)

\* C6: a call that exhausts its attempts without a 2xx after at least one
\* failure other than 404 raises an error carrying a non-404 status, also
\* when tolerate404 is set and 404s were seen.
C6_Non404FailureRaises ==
    (Done /\ "2xx" \notin fSeen /\ fSeen \ {"404"} # {}) =>
        fRes.kind = "throw" /\ fRes.res.status # 404

\* C7: an attempt answered 429 or 5xx is followed by a retry of the same
\* variant (same URL, same headers) before the call moves to another one.
C7_TransientRetried ==
    [][(fPrev.class = "transient" /\ Len(fLog') > Len(fLog)
        /\ (Len(fLog) = 1 \/ ~SameVariant(fLog[Len(fLog) - 1], Last(fLog))))
       => SameVariant(Last(fLog'), Last(fLog))]_vars

\* C8: the first request goes to the path as given on the primary base with
\* the API key; each with-key request is immediately followed by the no-key
\* request to the same URL, and each no-key request immediately preceded by
\* the with-key one; requests of the primary base (first entry of bases)
\* all precede those of the fallback base https://systeme.io.
C8_AttemptOrder ==
    /\ Len(fLog) >= 1 =>
         fLog[1] = Attempt(1, bases(fBase)[1], fPath, "withKey")
    /\ \A i \in 1..Len(fLog) :
         /\ fLog[i].auth = "noKey" =>
              i > 1 /\ fLog[i - 1] = [fLog[i] EXCEPT !.auth = "withKey"]
         /\ (fLog[i].auth = "withKey" /\ i < Len(fLog)) =>
              fLog[i + 1] = [fLog[i] EXCEPT !.auth = "noKey"]
         /\ fLog[i].base = bases(fBase)[fLog[i].slot]
         /\ fLog[i].slot = 2 => fLog[i].base = fallbackBase
    /\ \A i, j \in 1..Len(fLog) : i < j => fLog[i].slot <= fLog[j].slot

C8_Witness ==
    /\ Len(fLog) = Len(fAttempts)
    /\ Len(fLog) = 16
    /\ fLog[9].slot = 2
    /\ fLog[8].slot = 1
    /\ fLog[8].base # fLog[9].base

(***************************************************************************)
(* Properties of handler, stated for Spec (one delivery) and SpecDup       *)
(* (two deliveries of one event).                                          *)
(***************************************************************************)
Finished(h) == hs[h].pc = "done"

\* The request passed the method, header, shop and signature checks
Verified ==
    /\ event.method = "POST"
    /\ ~event.readErr
    /\ event.hmac # NoHeader /\ event.topic # "" /\ event.shop # ""
    /\ event.shop = cfg.domain
    /\ event.hmac = Digest(cfg.secret, event.raw)

Parseable == Bodies[event.raw].json # "invalid"
ParsesToTruthy == Bodies[event.raw].json \notin {"invalid", "falsy"}

OneResponse ==
    \A h \in Handlers :
        /\ hs[h].nResp <= 1
        /\ Finished(h) <=> hs[h].nResp = 1
        /\ Finished(h) => hs[h].status \in {200, 400, 401, 405}

UpsertRaised(h) ==
    Finished(h) /\ hs[h].body.error \in {"create-failed", "upsert-failed"}

\* findContactIdByEmail(email), called now against a healthy upstream,
\* would return an id
LookupWouldHit(email) ==
    \E i \in 1..Len(findCandidates(email)) :
        \E c \in {systemeFetch(findCandidates(email)[i], Opts("GET", email, 0),
                               TRUE, "none")} :
            c.ok /\ Truthy(NumberOfId(FindInList(ListOf(c.json), email)))

\* C2: upsertSystemeContact does not raise when the first lookup has
\* missed, creation has failed and a lookup made at that moment would hit:
\* it raises only after such a lookup has missed.
C2_RaceRecovered ==
    [][\A h \in Handlers :
          (~UpsertRaised(h) /\ UpsertRaised(h)') =>
              ~LookupWouldHit(hs[h].email)']_vars

Contacts(email) ==
    {i \in 1..Len(up.contacts) : SameEmail(up.contacts[i].email, email)}

\* C3: once both deliveries of the event have been handled without error
\* there is exactly one upstream contact with the e-mail of the order, and
\* the mapped tag is attached to it.
C3_OneContactTagged ==
    (\A h \in Handlers : Finished(h) /\ hs[h].body.error = "") =>
        \A h \in Handlers :
            /\ Cardinality(Contacts(hs[h].email)) = 1
            /\ \A i \in Contacts(hs[h].email) :
                 <<up.contacts[i].id, hs[h].tagId>> \in up.tags

NoEmail(payload) == Trim(payload.email) = <<>> /\ Trim(payload.custEmail) = <<>>

NoSku(payload) ==
    ~payload.isArray \/ \A i \in 1..Len(payload.items) : Trim(payload.items[i]) = <<>>

\* C9: a verified request with another topic, or whose order has no e-mail
\* or no line item with a non-empty SKU, is answered 200 with a non-error
\* body and without any upstream request.
C9_EarlyOutcomes ==
    \A h \in Handlers :
        (/\ Finished(h)
         /\ Verified
         /\ \/ event.topic # "orders/paid"
            \/ /\ ParsesToTruthy
               /\ NoEmail(Bodies[event.raw]) \/ NoSku(Bodies[event.raw]))
        => /\ hs[h].status = 200
           /\ hs[h].body.ok
           /\ hs[h].body.error = ""
           /\ ~hs[h].used

C9_Witness ==
    /\ Finished("h1")
    /\ Verified
    /\ event.topic = "orders/paid"
    /\ event.raw = "blank-skus"
    /\ hs["h1"].body = Body(TRUE, "order-without-sku", "")
    /\ ~hs["h1"].used

\* C10: when the first line item with a non-empty trimmed SKU names a SKU
\* that the tag map lacks, the outcome is the early no-op: 200, no error in
\* the body, no upstream request, whatever the later line items are.
C10_UnmappedSkuIsNoop ==
    \A h \in Handlers :
        (/\ Finished(h)
         /\ Verified
         /\ event.topic = "orders/paid"
         /\ ParsesToTruthy
         /\ ~NoEmail(Bodies[event.raw])
         /\ ~NoSku(Bodies[event.raw])
         /\ FirstSku(Bodies[event.raw].items) \notin DOMAIN TagMap)
        => /\ hs[h].status = 200
           /\ hs[h].body.error = ""
           /\ ~hs[h].used

HeadersPresent == event.hmac # NoHeader /\ event.topic # "" /\ event.shop # ""

\* C11: with a readable body and the shop domain and secret configured, a
\* request is rejected in this order: not POST gives 405 whatever the
\* headers; a missing signature, topic or shop header gives 400; a shop
\* header that is not exactly the configured domain gives 401; a signature
\* that does not match gives 401; none of them causes an upstream request.
C11_RejectionOrder ==
    \A h \in Handlers :
        (Finished(h) /\ ~event.readErr) =>
            /\ event.method # "POST" => hs[h].status = 405 /\ ~hs[h].used
            /\ (event.method = "POST" /\ ~HeadersPresent) =>
                   hs[h].status = 400 /\ ~hs[h].used
            /\ (event.method = "POST" /\ HeadersPresent /\ cfg.domain # ""
                /\ event.shop # cfg.domain) =>
                   hs[h].status = 401 /\ ~hs[h].used
            /\ (event.method = "POST" /\ HeadersPresent /\ event.shop = cfg.domain
                /\ cfg.secret # "" /\ event.hmac # Digest(cfg.secret, event.raw)) =>
                   hs[h].status = 401 /\ ~hs[h].used

C11_Witness ==
    /\ Finished("h1")
    /\ event.method = "POST"
    /\ event.shop = "Shop.MyShopify.com"
    /\ cfg.domain = "shop.myshopify.com"
    /\ event.hmac = Digest(cfg.secret, event.raw)
    /\ event.topic = "orders/paid"
    /\ hs["h1"].status = 401

\* C12: a POST with the three headers and the configured shop domain passes
\* verification exactly when its signature header is the digest of the raw
\* body under the configured secret; otherwise, a signature of another
\* length included, it is answered 401 and nothing is raised.
C12_SignatureDecides ==
    \A h \in Handlers :
        (/\ Finished(h) /\ ~event.readErr
         /\ event.method = "POST" /\ HeadersPresent
         /\ event.shop = cfg.domain /\ cfg.secret # "")
        => IF event.hmac = Digest(cfg.secret, event.raw)
           THEN hs[h].status # 401
           ELSE hs[h].status = 401 /\ ~hs[h].used

C12_Witness ==
    /\ Finished("h1")
    /\ event.method = "POST"
    /\ event.shop = cfg.domain
    /\ event.topic = "orders/paid"
    /\ event.hmac.len = DigestLen - 1
    /\ event.hmac.key = cfg.secret /\ event.hmac.of = event.raw
    /\ hs["h1"].status = 401

\* C13: within an invocation every upstream call is awaited before the next
\* is issued (a step of an invocation is one awaited call); a create-contact
\* POST has been issued only after a findContactIdByEmail call returned
\* without a hit, and an attach-tag POST only after upsertSystemeContact
\* returned a contact id.
C13_CallOrder ==
    \A h \in Handlers :
        /\ hs[h].last \in {"create", "form"} => hs[h].missed
        /\ hs[h].nCreateFail > 0 => hs[h].missed
        /\ (hs[h].pc = "attach" \/ hs[h].last = "attach") =>
               Truthy(hs[h].contactId) /\ hs[h].nAssign = 1

C13_Witness ==
    /\ Finished("h1")
    /\ hs["h1"].last = "attach"
    /\ hs["h1"].missed
    /\ hs["h1"].nCreateFail = 1
    /\ hs["h1"].body = Body(TRUE, "", "")

\* The order of a verified orders/paid request has an e-mail and a first SKU
\* whose tag-map value is numeric once trimmed
MappedOrder ==
    /\ Verified
    /\ event.topic = "orders/paid"
    /\ ParsesToTruthy
    /\ Trim(OrElse(Bodies[event.raw].email, Bodies[event.raw].custEmail)) # <<>>
    /\ ~NoSku(Bodies[event.raw])
    /\ FirstSku(Bodies[event.raw].items) \in DOMAIN TagMap
    /\ IsDigits(Trim(TagMap[FirstSku(Bodies[event.raw].items)]))

MappedTagId == NumberOfDigits(Trim(TagMap[FirstSku(Bodies[event.raw].items)]))

\* The answer is 200 {ok: true}
Succeeded(h) == Finished(h) /\ hs[h].status = 200 /\ hs[h].body = Body(TRUE, "", "")

\* C14: for a verified paid order whose first SKU maps to a numeric tag id,
\* assignTagToContact is entered at most once, and the answer is 200
\* {ok: true} only if it was entered exactly once, with the mapped tag id
\* and the id of an upstream contact that has the e-mail of the order, and
\* the attach request was accepted upstream.
C14_AttachOnceThenOk ==
    \A h \in Handlers :
        MappedOrder =>
            /\ hs[h].nAssign <= 1
            /\ hs[h].nAssign = 1 => hs[h].tagId = MappedTagId
            /\ Succeeded(h) =>
                 /\ hs[h].nAssign = 1
                 /\ hs[h].last = "attach"
                 /\ \E i \in Contacts(hs[h].email) :
                        up.contacts[i].id = hs[h].contactId.n
                 /\ <<hs[h].contactId.n, MappedTagId>> \in up.tags

C14_Witness ==
    /\ MappedOrder
    /\ Succeeded("h1")
    /\ hs["h1"].missed
    /\ hs["h1"].contactId = Num(Len(up.contacts))
    /\ up.tags = {<<Len(up.contacts), 7>>}

(***************************************************************************)
(* Properties of the tag resolvers, stated for SpecTags.  tOut is the      *)
(* latest call: the resolver, the tag-map value or name it was given,      *)
(* whether it threw, the id it returned (0 for null), the upstream         *)
(* requests it issued, and whether the name was a key of TAG_CACHE.        *)
(***************************************************************************)
MapResolvers == {"getTagIdFromMap", "resolveSystemeTagId"}

\* C15: for a tag-map value made of decimal digits only, getTagIdFromMap
\* and resolveSystemeTagId return that number and issue no upstream request.
C15_DigitsAreTheId ==
    (tOut.fn \in MapResolvers /\ IsDigits(tOut.arg)) =>
        /\ ~tOut.threw
        /\ tOut.val = NumberOfDigits(tOut.arg)
        /\ tOut.reqs = <<>>

C15_Witness ==
    /\ tOut.fn = "getTagIdFromMap"
    /\ tOut.arg = <<"0">>
    /\ ~tOut.threw
    /\ tOut.val = 0
    /\ tTags # <<>>

\* C16: for a tag-map value that is not a number, the resolver first
\* requests the upstream tag listing, and what it returns is the id of an
\* upstream tag whose name is the value, compared case-insensitively; it
\* issues a create request only when the listing has no such tag.
C16_NameIsLookedUp ==
    (tOut.fn \in MapResolvers /\ tOut.arg # <<>> /\ ~IsDigits(Trim(tOut.arg))) =>
        /\ tOut.reqs # <<>>
        /\ tOut.reqs[1] = "list"
        /\ ~tOut.threw =>
              \E i \in 1..Len(tTags) :
                  /\ tTags[i].id = tOut.val
                  /\ LowerName(tTags[i].name) = LowerName(Trim(tOut.arg))

\* C20: a getTagIdByName call for a name that is not a key of TAG_CACHE
\* requests the upstream tag listing, also once the cache has been filled.
C20_MissListsAgain ==
    (tOut.fn = "getTagIdByName" /\ tOut.arg # <<>> /\ ~tOut.cached) =>
        tOut.reqs = <<"list">>

(***************************************************************************)
(* Further properties of handler, stated for Spec.                         *)
(***************************************************************************)
\* C17: the tag id of every attach-tag request is a positive integer.
C17_TagIdPositive ==
    \A h \in Handlers : hs[h].last = "attach" => hs[h].tagId > 0

InFormPath(st) == st.last = "form" \/ st.pc \in {"form", "sleep"} \/ st.phase = "poll"

\* What a step of a poll (a findContactIdByEmail call made by
\* subscribeViaForm) may lead to
PollStep(st, nx) ==
    \/ nx.pc = "lookup" /\ nx.phase = "poll" /\ nx.i = st.i + 1 /\ nx.k = st.k
    \/ nx.pc = "attach" /\ Truthy(nx.contactId)
    \/ /\ st.i = Len(findCandidates(st.email))
       /\ \/ nx.pc = "sleep" /\ nx.k = st.k + 1 /\ nx.k <= 3
          \/ nx.pc = "form" /\ st.k = 3 /\ nx.r = st.r + 1
          \/ nx.pc = "done" /\ st.k = 3 /\ nx.body.error = "create-failed"

\* C18: a form-subscribe request is issued only after all four direct
\* create calls have failed and only with SYSTEME_FALLBACK_FORM_ID set;
\* after a form submission that succeeded findContactIdByEmail is called at
\* most 3 times, each call right after a sleep, and the first call that
\* finds the contact ends the polling with its id.
C18_FormFallback ==
    /\ [](\A h \in Handlers :
             InFormPath(hs[h]) =>
                 /\ cfg.formId # <<>>
                 /\ hs[h].nCreateFail = 4
                 /\ hs[h].k \in 1..3)
    /\ [][\A h \in Handlers :
             /\ (hs'[h] # hs[h] /\ hs'[h].pc = "lookup" /\ hs'[h].phase = "poll"
                 /\ hs'[h].i = 1) => hs[h].pc = "sleep"
             /\ (hs'[h] # hs[h] /\ hs[h].pc = "lookup" /\ hs[h].phase = "poll")
                    => PollStep(hs[h], hs'[h])]_vars

C18_Witness ==
    /\ hs["h1"].pc = "attach"
    /\ hs["h1"].phase = "poll"
    /\ hs["h1"].k = 3
    /\ hs["h1"].nCreateFail = 4
    /\ Truthy(hs["h1"].contactId)

Attached(st) == <<st.contactId.n, st.tagId>> \in up.tags

\* C19: assignTagToContact returns normally exactly when one of its calls
\* was answered 2xx, issues no request after that one, and raises only
\* after all four paths have been tried without a 2xx.
C19_AttachRoutes ==
    \A h \in Handlers :
        hs[h].last = "attach" =>
            /\ Attached(hs[h]) <=> Succeeded(h)
            /\ (Finished(h) /\ ~Succeeded(h)) =>
                   hs[h].body.error = "assign-failed" /\ hs[h].i = 4
            /\ hs[h].i \in 1..4

C19_Witness ==
    /\ Succeeded("h1")
    /\ hs["h1"].last = "attach"
    /\ hs["h1"].i = 2
    /\ Attached(hs["h1"])

(***************************************************************************)
(* Further properties of systemeFetch, stated for SpecFetch.               *)
(***************************************************************************)
\* C22: no 404, other 4xx, 5xx or network error on an attempt ends the
\* attempt loop: the call is over only after a 2xx or after the last
\* attempt, and a call in which some attempt was answered 2xx returns ok.
C22_OnlyOkEndsEarly ==
    /\ Done => (fPrev.class = "2xx" \/ Len(fLog) = Len(fAttempts))
    /\ (fLog # <<>> /\ fPrev.class # "2xx" /\ Len(fLog) < Len(fAttempts)) => ~Done
    /\ "2xx" \in fSeen => (fRes.kind = "return" /\ fRes.res.ok)

C22_Witness ==
    /\ fSeen = {"404", "4xx", "transient", "neterr", "2xx"}
    /\ fOkAt = 5
    /\ Len(fLog) = 5
    /\ fRes.kind = "return"
    /\ fRes.res.ok

\* C26: one call issues at most 16 requests and never requests the same
\* URL with the same header set twice, whatever SYSTEME_API_BASE holds.
C26_NoRepeatedRequest ==
    /\ Len(fLog) <= 16
    /\ \A i, j \in 1..Len(fLog) : i < j => ~SameVariant(fLog[i], fLog[j])

(***************************************************************************)
(* Further properties of the handler, stated for Spec.                     *)
(***************************************************************************)
\* upsertSystemeContact has raised in invocation h
UpsertThrew(h) ==
    /\ Finished(h)
    /\ hs[h].body \in {Caught("create-failed").body, Caught("upsert-failed").body}

C25_LookupNeverRaises ==
    [][\A h \in Handlers :
          (hs[h].pc = "lookup" /\ hs[h].phase = "first" /\ hs'[h] # hs[h]) =>
              \/ /\ hs'[h].pc = "lookup"
                 /\ hs'[h].phase = "first"
                 /\ hs'[h].i = hs[h].i + 1
              \/ /\ hs'[h].pc = "attach"
                 /\ \E j \in 1..Len(up.contacts) :
                        /\ SameEmail(up.contacts[j].email, hs[h].email)
                        /\ up.contacts[j].id = hs'[h].contactId.n
              \/ /\ hs'[h].pc = "create"
                 /\ hs[h].i = Len(findCandidates(hs[h].email))
                 /\ hs'[h].missed]_vars

\* Every route of the lookup failed although the upstream lists contacts
\* and holds one with the e-mail: createContact is entered
C25_Witness ==
    /\ upCfg.ops \cap {"lookup", "search"} # {}
    /\ HasEmail(up.contacts, hs["h1"].email)
    /\ hs["h1"].pc = "create"
    /\ hs["h1"].last = "lookup"
    /\ hs["h1"].missed

\* C28: within one createContact call at most one form submission is
\* answered 2xx.
C28_FormAcceptedOnce == \A h \in Handlers : hs[h].nFormOk <= 1

(***************************************************************************)
(* Termination of an invocation, stated for SpecLive and SpecStall.        *)
(***************************************************************************)
\* An upper bound of the number of awaited calls and sleeps invocation
\* state st still has before it: the loops over the candidates of
\* findContactIdByEmail (L), createContact, assignTagToContact (A), the
\* routes of subscribeViaForm and its polls
Rank(st) ==
    LET L == Len(findCandidates(st.email))
        A == Len(attachPaths(st.contactId.n))
        C == Len(createCandidates)
        F == Len(formRoutes(cfg.formId))
        poll == 1 + L
        route == 1 + MaxPolls * poll
    IN  CASE st.pc = "attach" -> A - st.i + 1
          [] st.pc = "lookup" /\ st.phase = "again" -> (L - st.i + 1) + A
          [] st.pc = "lookup" /\ st.phase = "poll" ->
                 (L - st.i + 1) + (MaxPolls - st.k) * poll + (F - st.r) * route + A
          [] st.pc = "sleep" ->
                 poll + (MaxPolls - st.k) * poll + (F - st.r) * route + A
          [] st.pc = "form" -> (F - st.r + 1) * route + A
          [] st.pc = "create" -> (C - st.i + 1) + F * route + L + A
          [] st.pc = "lookup" /\ st.phase = "first" ->
                 (L - st.i + 1) + C + F * route + L + A
          [] st.pc = "start" -> 1 + L + C + F * route + L + A
          [] OTHER -> 0

\* The numbers of HTTP requests the systemeFetch call that invocation h is
\* about to make may issue
CallRequests(h) ==
    LET st == hs[h]
    IN  IF st.pc \notin {"lookup", "create", "form", "attach"} THEN {}
        ELSE { systemeFetch(
                   CASE st.pc = "lookup" -> findCandidates(st.email)[st.i]
                     [] st.pc = "create" -> createCandidates[st.i]
                     [] st.pc = "form" -> formRoutes(cfg.formId)[st.r]
                     [] OTHER -> attachPaths(st.contactId.n)[st.i],
                   Opts(IF st.pc = "lookup" THEN "GET" ELSE "POST", st.email,
                        IF st.pc = "attach" THEN st.tagId ELSE 0),
                   TRUE, fault).n : fault \in Faults }

\* C27: when every upstream request completes, every invocation sends its
\* response after a bounded number of upstream requests: each systemeFetch
\* call issues between 1 and 16 requests, every step of an invocation
\* lowers Rank, the bound of the calls still to come, which is never
\* negative, and an invocation that has started finishes.
C27_BoundedTermination ==
    /\ [](\A h \in Handlers :
             /\ Rank(hs[h]) >= 0
             /\ \A n \in CallRequests(h) : n \in 1..16)
    /\ [][\A h \in Handlers :
             hs'[h] # hs[h] => Rank(hs'[h]) < Rank(hs[h])]_vars
    /\ \A h \in Handlers : (hs[h].pc = "start") ~> Finished(h)

\* An invocation has finished after all three form routes were answered
\* 2xx and all nine polls missed
C27_Witness ==
    /\ Finished("h1")
    /\ hs["h1"].nFormOk = 3
    /\ hs["h1"].k = MaxPolls
    /\ hs["h1"].body = Caught("create-failed").body

\* C21: also when an upstream request never completes, every invocation
\* eventually sends its response.
C21_StalledStillResponds ==
    \A h \in Handlers : (hs[h].pc # "off") ~> Finished(h)

(***************************************************************************)
(* The race on TAG_CACHE, stated for SpecRace.                             *)
(***************************************************************************)
\* The positions in listing l of the tags named name, case ignored
Named(l, name) == {i \in 1..Len(l) : LowerName(l[i].name) = LowerName(name)}

\* The id listing l gives for name (that of the last tag so named), 0 if none
IdIn(l, name) ==
    IF Named(l, name) = {} THEN 0
    ELSE l[CHOOSE i \in Named(l, name) : \A j \in Named(l, name) : j <= i].id

\* map holds exactly the lower-cased names of listing l, each with its id
Complete(map, l) ==
    /\ DOMAIN map = {LowerName(l[i].name) : i \in 1..Len(l)}
    /\ \A i \in 1..Len(l) : map[LowerName(l[i].name)] = IdIn(l, l[i].name)

\* The invocations that have assigned and filled TAG_CACHE
Fillers == {g \in Invocations : tInv[g].filled}

====
